---- MODULE Spec2Model ----
(***************************************************************************)
(* Model of msc_pygeoapi/loader/aqhi_realtime.py: the AQHI real-time       *)
(* loader (AqhiRealtimeLoader) and the commands add, clean_indexes and     *)
(* delete_indexes.                                                         *)
(*                                                                         *)
(* Strings are sequences of tokens.  A token is a run of characters that   *)
(* the code never looks inside ("AQ", "FCST", "_", ".json", ...); the      *)
(* characters of a timestamp are one token per digit, because strptime     *)
(* and strftime work digit by digit.  None is "None" for a kind, <<>> for  *)
(* a string or a datetime and 0 for a path.                                *)
(***************************************************************************)
EXTENDS Integers, Sequences, FiniteSets, TLC

VARIABLES
    filepath,          \* self.filepath: the file being loaded (0 is None)
    type,              \* self.type
    region,            \* self.region
    date_,             \* self.date_: <<year, month, day, hour, minute>>
    items,             \* self.items
    request_size,      \* chunk size the connector submits with
    store,             \* the documents of the store, by <<index, id>>
    files_to_process,  \* add: the list the loop runs over
    pos,               \* add: number of loop iterations started
    pc,                \* "idle", or "add" while the add loop runs
    outcome,           \* how the last add command ended
    last,              \* the last load_data call: file, entry state, result
    log,               \* operations submitted by the last add command
    clean,             \* the clean_indexes call, when it is the last command
    nLoads             \* load_data calls made or scheduled so far

vars == <<filepath, type, region, date_, items, request_size, store,
          files_to_process, pos, pc, outcome, last, log, clean, nLoads>>

-----------------------------------------------------------------------------
(* Bounds of the model.                                                    *)

MaxLoads == 3
MaxDir == 2
MaxBatch == 2
MaxDays == 2

-----------------------------------------------------------------------------
(* Tokens and small helpers.                                               *)

DigitChars == <<"0", "1", "2", "3", "4", "5", "6", "7", "8", "9">>

IsDigit(c) == \E i \in 1..10 : DigitChars[i] = c

DigitVal(c) == (CHOOSE i \in 1..10 : DigitChars[i] = c) - 1

Ch(s, i) == IF i >= 1 /\ i <= Len(s) THEN s[i] ELSE ""

Between(c, lo, hi) == IsDigit(c) /\ DigitVal(c) >= lo /\ DigitVal(c) <= hi

Num2(s, o, l) ==
    IF l = 2 THEN 10 * DigitVal(s[o]) + DigitVal(s[o + 1]) ELSE DigitVal(s[o])

SetKey(d, k, v) == [x \in DOMAIN d \cup {k} |-> IF x = k THEN v ELSE d[x]]

Pop(d, k) == [x \in DOMAIN d \ {k} |-> d[x]]

-----------------------------------------------------------------------------
(* The files on disk: name, modification time and JSON payload.            *)

TS1 == <<"2", "0", "2", "4", "0", "3", "1", "5", "0", "6", "0", "0">>
TS2 == <<"2", "0", "2", "4", "0", "3", "1", "5", "1", "2", "0", "0">>
TS3 == <<"2", "0", "2", "4", "0", "3", "1", "6", "0", "7", "0", "0">>
TS4 == <<"2", "0", "2", "4", "0", "3", "1", "7", "0", "6", "0", "0">>
TSshort == <<"2", "0", "2", "4", "0", "3", "1", "5", "0", "6">>

AqName(typ, reg, ts) == <<"AQ", "_", typ, "_", reg, "_">> \o ts \o <<".json">>

FS == <<
    [name |-> AqName("FCST", "ON", TS1), mtime |-> 1,
     data |-> [features |-> << [ID |-> "R001", aqhi |-> "3"],
                               [ID |-> "R002", aqhi |-> "4"] >>]],
    [name |-> AqName("FCST", "ON", TS2), mtime |-> 2,
     data |-> [features |-> << [ID |-> "R001", aqhi |-> "5"] >>]],
    [name |-> AqName("OBS", "ON", TS3), mtime |-> 2,
     data |-> [ID |-> "R001", aqhi |-> "6"]],
    [name |-> AqName("FCST", "BC", TS4), mtime |-> 3,
     data |-> [features |-> << [ID |-> "R003", aqhi |-> "1"],
                               [ID |-> "R004", aqhi |-> "2"],
                               [aqhi |-> "9"] >>]],
    [name |-> AqName("XX", "ON", TS1), mtime |-> 1,
     data |-> [features |-> << [ID |-> "R005", aqhi |-> "8"] >>]],
    [name |-> AqName("FCST", "ON", TSshort), mtime |-> 4,
     data |-> [features |-> << [ID |-> "R001", aqhi |-> "7"] >>]],
    [name |-> <<"AQ", "_", "OBS", "_", "ON", "_", "BC", "_">> \o TS1 \o <<".json">>,
     mtime |-> 3,
     data |-> [ID |-> "R006", aqhi |-> "2"]],
    [name |-> <<"AQ", "_", "FCST", ".json">>, mtime |-> 2,
     data |-> [features |-> << [ID |-> "R007", aqhi |-> "1"] >>]],
    [name |-> <<"notes", ".txt">>, mtime |-> 1,
     data |-> [features |-> << >>]]
>>

FileIds == DOMAIN FS

Today == <<2024, 3, 17>>

-----------------------------------------------------------------------------
(* parse('AQ_{type}_{region}_{date_}.json', filename): every field is a    *)
(* non-greedy, non-empty match and the whole name must be matched, so the  *)
(* result is the first split in the order (shortest type, shortest         *)
(* region); no split gives None (ok = FALSE).                              *)

ParseSplits(s) ==
    {ij \in (1..Len(s)) \X (1..Len(s)) :
        /\ Len(s) >= 8
        /\ s[1] = "AQ" /\ s[2] = "_"
        /\ ij[1] >= 4 /\ s[ij[1]] = "_"
        /\ ij[2] >= ij[1] + 2 /\ s[ij[2]] = "_"
        /\ ij[2] + 1 <= Len(s) - 1
        /\ s[Len(s)] = ".json"}

parse(s) ==
    LET sp == ParseSplits(s)
    IN  IF sp = {}
        THEN [ok |-> FALSE, type |-> <<>>, region |-> <<>>, date_ |-> <<>>]
        ELSE LET i == CHOOSE a \in {x[1] : x \in sp} :
                          \A b \in {x[1] : x \in sp} : a <= b
                 j == CHOOSE a \in {x[2] : x \in {y \in sp : y[1] = i}} :
                          \A b \in {x[2] : x \in {y \in sp : y[1] = i}} : a <= b
             IN  [ok |-> TRUE,
                  type |-> SubSeq(s, 3, i - 1),
                  region |-> SubSeq(s, i + 1, j - 1),
                  date_ |-> SubSeq(s, j + 1, Len(s) - 1)]

-----------------------------------------------------------------------------
(* datetime.strptime(s, '%Y%m%d%H%M').  %Y is four digits; %m, %d, %H and  *)
(* %M each take two digits when their two-digit pattern matches and one    *)
(* digit otherwise, backtracking in that order until every directive has   *)
(* matched.  Text left over after the match, a non-digit, or a day that    *)
(* the month does not have, is a ValueError (ok = FALSE).                  *)

MatchMonth(s, o, l) ==
    IF l = 2
    THEN \/ Ch(s, o) = "1" /\ Between(Ch(s, o + 1), 0, 2)
         \/ Ch(s, o) = "0" /\ Between(Ch(s, o + 1), 1, 9)
    ELSE Between(Ch(s, o), 1, 9)

MatchDay(s, o, l) ==
    IF l = 2
    THEN \/ Ch(s, o) = "3" /\ Between(Ch(s, o + 1), 0, 1)
         \/ Between(Ch(s, o), 1, 2) /\ IsDigit(Ch(s, o + 1))
         \/ Ch(s, o) = "0" /\ Between(Ch(s, o + 1), 1, 9)
    ELSE Between(Ch(s, o), 1, 9)

MatchHour(s, o, l) ==
    IF l = 2
    THEN \/ Ch(s, o) = "2" /\ Between(Ch(s, o + 1), 0, 3)
         \/ Between(Ch(s, o), 0, 1) /\ IsDigit(Ch(s, o + 1))
    ELSE IsDigit(Ch(s, o))

MatchMinute(s, o, l) ==
    IF l = 2
    THEN Between(Ch(s, o), 0, 5) /\ IsDigit(Ch(s, o + 1))
    ELSE IsDigit(Ch(s, o))

IsLeap(y) == (y % 4 = 0 /\ y % 100 # 0) \/ y % 400 = 0

DaysInMonth(y, m) ==
    IF m = 2 THEN (IF IsLeap(y) THEN 29 ELSE 28)
    ELSE IF m \in {4, 6, 9, 11} THEN 30 ELSE 31

Widths == {w \in [1..4 -> {1, 2}] : TRUE}

Rank(w) == (2 - w[1]) * 8 + (2 - w[2]) * 4 + (2 - w[3]) * 2 + (2 - w[4])

strptime(s) ==
    LET bad == [ok |-> FALSE, value |-> <<>>]
        fits == {w \in Widths :
                    /\ \A k \in 1..4 : IsDigit(Ch(s, k))
                    /\ MatchMonth(s, 5, w[1])
                    /\ MatchDay(s, 5 + w[1], w[2])
                    /\ MatchHour(s, 5 + w[1] + w[2], w[3])
                    /\ MatchMinute(s, 5 + w[1] + w[2] + w[3], w[4])}
    IN  IF fits = {} THEN bad
        ELSE LET w == CHOOSE a \in fits : \A b \in fits : Rank(a) <= Rank(b)
                 y == 1000 * DigitVal(s[1]) + 100 * DigitVal(s[2])
                      + 10 * DigitVal(s[3]) + DigitVal(s[4])
                 m == Num2(s, 5, w[1])
                 d == Num2(s, 5 + w[1], w[2])
                 H == Num2(s, 5 + w[1] + w[2], w[3])
                 M == Num2(s, 5 + w[1] + w[2] + w[3], w[4])
             IN  IF 4 + w[1] + w[2] + w[3] + w[4] # Len(s) THEN bad
                 ELSE IF y < 1 \/ d > DaysInMonth(y, m) THEN bad
                 ELSE [ok |-> TRUE, value |-> <<y, m, d, H, M>>]

(* date_.strftime('%Y-%m-%d'): zero-padded year, month and day.            *)

Pad2(n) == <<DigitChars[((n \div 10) % 10) + 1], DigitChars[(n % 10) + 1]>>

strftime(d) ==
    Pad2(d[1] \div 100) \o Pad2(d[1] % 100) \o <<"-">> \o Pad2(d[2])
        \o <<"-">> \o Pad2(d[3])

(* INDEX_BASENAME.format(kind)                                             *)

INDEX_BASENAME(kind) == <<"aqhi_realtime_", kind, ".">>

(* '{}{}'.format(INDEX_BASENAME.format(self.type), strftime(...))          *)

es_index(kind, d) == INDEX_BASENAME(kind) \o strftime(d)

-----------------------------------------------------------------------------
(* AqhiRealtimeLoader.parse_filename.  An exception leaves the attributes  *)
(* assigned before it: parse returning None raises AttributeError at the   *)
(* first .named, strptime raises ValueError after type and region are set. *)

parse_filename(name, type0, region0, date0) ==
    LET parsed_filename == parse(name)
        type_ == parsed_filename.type
        type1 == IF type_ = <<"FCST">> THEN "forecasts"
                 ELSE IF type_ = <<"OBS">> THEN "observations"
                 ELSE type0
        dt == strptime(parsed_filename.date_)
    IN  IF ~parsed_filename.ok
        THEN [err |-> "AttributeError", type |-> type0, region |-> region0,
              date_ |-> date0]
        ELSE IF ~dt.ok
        THEN [err |-> "ValueError", type |-> type1,
              region |-> parsed_filename.region, date_ |-> date0]
        ELSE [err |-> "", type |-> type1, region |-> parsed_filename.region,
              date_ |-> dt.value]

-----------------------------------------------------------------------------
(* AqhiRealtimeLoader.generate_geojson_features.                           *)

(* The features of the payload: data['features'] for forecasts, [data]     *)
(* for observations; with any other kind `features` is never bound.        *)
ReadFeatures(data, kind) ==
    IF kind = "forecasts"
    THEN IF "features" \in DOMAIN data
         THEN [err |-> "", features |-> data.features]
         ELSE [err |-> "KeyError", features |-> <<>>]
    ELSE IF kind = "observations"
    THEN [err |-> "", features |-> <<data>>]
    ELSE [err |-> "UnboundLocalError", features |-> <<>>]

(* SetDocumentId without the pop of 'ID'.                                  *)
SetDocumentIdKeepID(feature) == SetKey(feature, "id", feature["ID"])

(* feature['id'] = feature['ID']; feature.pop('ID')                        *)
SetDocumentId(feature) == Pop(SetKey(feature, "id", feature["ID"]), "ID")

(* The action yielded for one feature.                                     *)
Action(feature, kind, d) ==
    [id |-> SetDocumentId(feature)["id"],
     index |-> es_index(kind, d),
     op_type |-> "update",
     doc |-> SetDocumentId(feature),
     doc_as_upsert |-> TRUE]

(* Number of leading features that carry 'ID': the generator raises        *)
(* KeyError on the first one that does not.                                *)
RECURSIVE Yielded(_)
Yielded(features) ==
    IF features = <<>> \/ "ID" \notin DOMAIN Head(features)
    THEN 0
    ELSE 1 + Yielded(Tail(features))

(* The generator run to its end or to its exception: the actions it        *)
(* yields, in order, and the exception that ends it ("" for none).         *)
generate_geojson_features(data, kind, d) ==
    LET r == ReadFeatures(data, kind)
        n == Yielded(r.features)
    IN  [err |-> IF r.err # "" THEN r.err
                 ELSE IF n < Len(r.features) THEN "KeyError" ELSE "",
         actions |-> [i \in 1..n |-> Action(r.features[i], kind, d)]]

-----------------------------------------------------------------------------
(* The store connector.                                                    *)

(* One update with doc_as_upsert: the document is inserted, or its fields  *)
(* are merged over the stored document's.                                  *)
Upsert(st, a) ==
    LET k == <<a.index, a.id>>
        old == IF k \in DOMAIN st THEN st[k] ELSE [x \in {} |-> ""]
        new == [x \in DOMAIN old \cup DOMAIN a.doc |->
                   IF x \in DOMAIN a.doc THEN a.doc[x] ELSE old[x]]
    IN  [x \in DOMAIN st \cup {k} |-> IF x = k THEN new ELSE st[x]]

RECURSIVE BulkApply(_, _)
BulkApply(st, actions) ==
    IF actions = <<>> THEN st
    ELSE BulkApply(Upsert(st, Head(actions)), Tail(actions))

(* submit_elastic_package(package, request_size): the lazy package is      *)
(* consumed in chunks of `size` actions, each chunk submitted when it is   *)
(* full or the package ends; an exception of the generator ends the        *)
(* submission and loses the chunk being filled.                            *)
Submitted(package, size) ==
    IF package.err = ""
    THEN package.actions
    ELSE SubSeq(package.actions, 1, (Len(package.actions) \div size) * size)

(* conn.get(pattern): the names of the existing indexes of the dataset.    *)
Indexes(st, dataset) ==
    {k[1] : k \in {x \in DOMAIN st :
        /\ x[1][1] = "aqhi_realtime_"
        /\ dataset = "all" \/ x[1][2] = dataset}}

(* conn.delete(names): the indexes go, with their documents.               *)
Delete(st, names) == [k \in {x \in DOMAIN st : x[1] \notin names} |-> st[k]]

-----------------------------------------------------------------------------
(* check_es_indexes_to_delete(indexes, days): the indexes whose trailing   *)
(* date is strictly earlier than today - days; a name without a trailing   *)
(* date is never selected.                                                 *)

RECURSIVE DaysBeforeMonth(_, _)
DaysBeforeMonth(y, m) ==
    IF m <= 1 THEN 0 ELSE DaysInMonth(y, m - 1) + DaysBeforeMonth(y, m - 1)

ToOrdinal(y, m, d) ==
    365 * (y - 1) + ((y - 1) \div 4) - ((y - 1) \div 100) + ((y - 1) \div 400)
        + DaysBeforeMonth(y, m) + d

IndexDate(name) ==
    LET n == Len(name)
        t == SubSeq(name, n - 9, n)
        bad == [ok |-> FALSE, ordinal |-> 0]
    IN  IF n < 10 THEN bad
        ELSE IF ~(/\ \A i \in {1, 2, 3, 4, 6, 7, 9, 10} : IsDigit(t[i])
                  /\ t[5] = "-" /\ t[8] = "-") THEN bad
        ELSE LET y == 100 * Num2(t, 1, 2) + Num2(t, 3, 2)
                 m == Num2(t, 6, 2)
                 d == Num2(t, 9, 2)
             IN  IF y < 1 \/ m < 1 \/ m > 12 \/ d < 1 \/ d > DaysInMonth(y, m)
                 THEN bad
                 ELSE [ok |-> TRUE, ordinal |-> ToOrdinal(y, m, d)]

check_es_indexes_to_delete(indexes, days) ==
    {i \in indexes :
        /\ IndexDate(i).ok
        /\ IndexDate(i).ordinal < ToOrdinal(Today[1], Today[2], Today[3]) - days}

-----------------------------------------------------------------------------
(* AqhiRealtimeLoader.load_data(filepath) on a loader whose attributes     *)
(* are type0, region0, date0, items0: the attributes, the store and the    *)
(* result after the call.  status is "ok" when it returns True and the     *)
(* exception's name when it raises.                                        *)

load_data(f, type0, region0, date0, items0, st, size) ==
    LET p == parse_filename(FS[f].name, type0, region0, date0)
        package == generate_geojson_features(FS[f].data, p.type, p.date_)
        sent == Submitted(package, size)
    IN  IF p.err # ""
        THEN [type |-> p.type, region |-> p.region, date_ |-> p.date_,
              items |-> items0, store |-> st, status |-> p.err,
              emitted |-> <<>>, ops |-> <<>>]
        ELSE [type |-> p.type, region |-> p.region, date_ |-> p.date_,
              items |-> items0 \o [i \in 1..Len(package.actions) |->
                                      package.actions[i].doc],
              store |-> BulkApply(st, sent),
              status |-> IF package.err = "" THEN "ok" ELSE package.err,
              emitted |-> package.actions, ops |-> sent]

(* files_to_process.sort(key=os.path.getmtime): a stable ascending sort.   *)
RECURSIVE InsertByMtime(_, _)
InsertByMtime(sorted, f) ==
    IF sorted = <<>> THEN <<f>>
    ELSE IF FS[sorted[Len(sorted)]].mtime <= FS[f].mtime
    THEN Append(sorted, f)
    ELSE Append(InsertByMtime(SubSeq(sorted, 1, Len(sorted) - 1), f),
                sorted[Len(sorted)])

(* The list left in the order of the walk.                                 *)
SortByMtimeUnsorted(files) == files

RECURSIVE SortByMtime(_)
SortByMtime(files) ==
    IF files = <<>> THEN <<>>
    ELSE InsertByMtime(SortByMtime(SubSeq(files, 1, Len(files) - 1)),
                       files[Len(files)])

(* [file for file in files if file.endswith('.json')]                      *)
RECURSIVE JsonFiles(_)
JsonFiles(walk) ==
    IF walk = <<>> THEN <<>>
    ELSE IF FS[Head(walk)].name[Len(FS[Head(walk)].name)] = ".json"
    THEN <<Head(walk)>> \o JsonFiles(Tail(walk))
    ELSE JsonFiles(Tail(walk))

(* The order in which os.walk lists a directory: any sequence of distinct  *)
(* files.  NoDirectory stands for directory = None.                        *)
Walks(n) ==
    UNION {{w \in [1..k -> FileIds] : \A i, j \in 1..k : i # j => w[i] # w[j]}
              : k \in 0..n}

NoDirectory == <<0>>

-----------------------------------------------------------------------------------------------------------------------------------------------------
(* State after construction, and the operations.  Every command is a       *)
(* process of its own: it starts without a loader, and what the variables  *)
(* record of the command before it (last, log, outcome, clean) is cleared. *)

NoLoad ==
    [file |-> 0, type0 |-> "None", region0 |-> <<>>, date0 |-> <<>>,
     status |-> "none", emitted |-> <<>>, ops |-> <<>>]

NoClean ==
    [ran |-> FALSE, indexes |-> {}, selected |-> {}, issued |-> FALSE,
     deleted |-> {}]

Init ==
    /\ filepath = 0
    /\ type = "None"
    /\ region = <<>>
    /\ date_ = <<>>
    /\ items = <<>>
    /\ request_size \in 1..MaxBatch
    /\ store = [k \in {} |-> <<>>]
    /\ files_to_process = <<>>
    /\ pos = 0
    /\ pc = "idle"
    /\ outcome = "none"
    /\ last = NoLoad
    /\ log = <<>>
    /\ clean = NoClean
    /\ nLoads = 0

(* AqhiRealtimeLoader.__init__: a new loader replaces the current one.     *)
NewLoader ==
    /\ pc = "idle"
    /\ filepath' = 0
    /\ type' = "None"
    /\ region' = <<>>
    /\ date_' = <<>>
    /\ items' = <<>>
    /\ UNCHANGED <<request_size, store, files_to_process, pos, pc, outcome,
                   last, log, clean, nLoads>>

(* loader.load_data(f) called on the current loader.                       *)
LoadData(f) ==
    /\ pc = "idle"
    /\ nLoads < MaxLoads
    /\ \E r \in {load_data(f, type, region, date_, items, store,
                            request_size)} :
           /\ filepath' = f
           /\ type' = r.type
           /\ region' = r.region
           /\ date_' = r.date_
           /\ items' = r.items
           /\ store' = r.store
           /\ last' = [file |-> f, type0 |-> type, region0 |-> region,
                       date0 |-> date_, status |-> r.status,
                       emitted |-> r.emitted, ops |-> r.ops]
    /\ nLoads' = nLoads + 1
    /\ UNCHANGED <<request_size, files_to_process, pos, pc, outcome, log,
                   clean>>

(* add, up to the loop: the option check and the list of files.            *)
Add(file_, directory) ==
    /\ pc = "idle"
    /\ LET files == IF file_ # 0 THEN <<file_>>
                    ELSE IF directory # NoDirectory
                    THEN SortByMtime(JsonFiles(directory))
                    ELSE <<>>
       IN  /\ nLoads + Len(files) <= MaxLoads
           /\ files_to_process' = files
           /\ nLoads' = nLoads + Len(files)
           /\ pc' = IF files = <<>> THEN "idle" ELSE "add"
           /\ outcome' = IF file_ = 0 /\ directory = NoDirectory
                         THEN "ClickException"
                         ELSE IF files = <<>> THEN "done" ELSE "running"
    /\ pos' = 0
    /\ log' = <<>>
    /\ last' = NoLoad
    /\ clean' = NoClean
    /\ filepath' = 0
    /\ type' = "None"
    /\ region' = <<>>
    /\ date_' = <<>>
    /\ items' = <<>>
    /\ UNCHANGED <<request_size, store>>

(* One iteration of add's loop: a new loader loads the next file; an       *)
(* exception of load_data is not caught and ends the command.              *)
AddStep ==
    /\ pc = "add"
    /\ \E f \in {files_to_process[pos + 1]} :
       \E r \in {load_data(f, "None", <<>>, <<>>, <<>>, store,
                            request_size)} :
           /\ filepath' = f
           /\ type' = r.type
           /\ region' = r.region
           /\ date_' = r.date_
           /\ items' = r.items
           /\ store' = r.store
           /\ last' = [file |-> f, type0 |-> "None", region0 |-> <<>>,
                       date0 |-> <<>>, status |-> r.status,
                       emitted |-> r.emitted, ops |-> r.ops]
           /\ log' = log \o [i \in 1..Len(r.ops) |->
                                [file |-> f, action |-> r.ops[i]]]
           /\ outcome' = IF r.status # "ok" THEN r.status
                         ELSE IF pos + 1 = Len(files_to_process) THEN "done"
                         ELSE "running"
           /\ pc' = IF r.status = "ok" /\ pos + 1 < Len(files_to_process)
                    THEN "add" ELSE "idle"
    /\ pos' = pos + 1
    /\ UNCHANGED <<request_size, files_to_process, clean, nLoads>>

(* What a command other than add leaves of the command before it.          *)
NoAdd ==
    /\ filepath' = 0
    /\ type' = "None"
    /\ region' = <<>>
    /\ date_' = <<>>
    /\ items' = <<>>
    /\ files_to_process' = <<>>
    /\ pos' = 0
    /\ outcome' = "none"
    /\ last' = NoLoad
    /\ log' = <<>>

(* clean_indexes(days, dataset)                                            *)
CleanIndexes(days, dataset) ==
    /\ pc = "idle"
    /\ LET indexes == Indexes(store, dataset)
           indexes_to_delete == check_es_indexes_to_delete(indexes, days)
           issued == indexes # {} /\ indexes_to_delete # {}
       IN  /\ store' = IF issued THEN Delete(store, indexes) ELSE store
           /\ clean' = [ran |-> TRUE, indexes |-> indexes,
                        selected |-> indexes_to_delete, issued |-> issued,
                        deleted |-> IF issued THEN indexes ELSE {}]
    /\ NoAdd
    /\ UNCHANGED <<request_size, pc, nLoads>>

(* delete_indexes(dataset)                                                 *)
DeleteIndexes(dataset) ==
    /\ pc = "idle"
    /\ store' = Delete(store, Indexes(store, dataset))
    /\ clean' = NoClean
    /\ NoAdd
    /\ UNCHANGED <<request_size, pc, nLoads>>

Datasets == {"all", "forecasts", "observations"}

(* The options of add: --file alone, --directory alone, both, neither.     *)
AddOptions ==
    {<<f, NoDirectory>> : f \in FileIds}
        \cup {<<0, d>> : d \in Walks(MaxDir) \cup {NoDirectory}}
        \cup {<<f, <<>>>> : f \in FileIds}

(* The commands of the aqhi_realtime group, run one after the other.       *)
Next ==
    \/ \E o \in AddOptions : Add(o[1], o[2])
    \/ AddStep
    \/ \E days \in 0..MaxDays : \E dataset \in Datasets :
           CleanIndexes(days, dataset)
    \/ \E dataset \in Datasets : DeleteIndexes(dataset)

Spec == Init /\ [][Next]_vars

(* A caller that holds on to its loaders and calls load_data on them.      *)
NextLoader ==
    \/ NewLoader
    \/ \E f \in FileIds : LoadData(f)

SpecLoader == Init /\ [][NextLoader]_vars

-----------------------------------------------------------------------------
(* What the claims speak of.                                               *)

(* The filename grammar: AQ, a type token, a region token and a timestamp  *)
(* of twelve digits, joined by underscores, then .json.                    *)
GrammarName(s) ==
    /\ Len(s) = 19
    /\ s[1] = "AQ" /\ s[2] = "_" /\ s[4] = "_" /\ s[6] = "_"
    /\ s[3] \notin {"_", ".json"} /\ s[5] \notin {"_", ".json"}
    /\ \A i \in 7..18 : IsDigit(s[i])
    /\ s[19] = ".json"

(* The dataset kind a type token stands for.                               *)
KindOfToken(t) ==
    IF t = "FCST" THEN "forecasts"
    ELSE IF t = "OBS" THEN "observations" ELSE "None"

(* aqhi_realtime_<kind>.<YYYY-MM-DD> read off the text of a name.          *)
PartitionOfName(s) ==
    <<"aqhi_realtime_", KindOfToken(s[3]), ".">>
        \o SubSeq(s, 7, 10) \o <<"-">> \o SubSeq(s, 11, 12) \o <<"-">>
        \o SubSeq(s, 13, 14)

(* The features of a payload of the given kind.                            *)
FeaturesOf(data, kind) == IF kind = "forecasts" THEN data.features ELSE <<data>>

(* The features of a payload, by its shape.                                *)
FeaturesOfFile(f) ==
    IF "features" \in DOMAIN FS[f].data THEN FS[f].data.features
    ELSE <<FS[f].data>>

ParseErrors == {"AttributeError", "ValueError"}

(* C1: clean_indexes passes to delete exactly the indexes selected as      *)
(* older than the cutoff, and issues no delete when none is selected.      *)
C1_DeleteOnlySelected ==
    clean.ran =>
        /\ clean.issued <=> clean.selected # {}
        /\ clean.deleted = clean.selected

(* C2: when a feature of the file lacks ID, load_data fails and none of    *)
(* the file's operations is submitted.                                     *)
C2_MissingIdSubmitsNothing ==
    (/\ filepath # 0
     /\ \E i \in DOMAIN FeaturesOfFile(filepath) :
            "ID" \notin DOMAIN FeaturesOfFile(filepath)[i])
        => last.status # "ok" /\ last.ops = <<>>

(* C3: parse_filename maps FCST to forecasts and OBS to observations and   *)
(* fails at the parsing step for every other type token.                   *)
C3_UnknownTypeIsParseError ==
    (filepath # 0 /\ parse(FS[filepath].name).ok) =>
        LET t == parse(FS[filepath].name).type
        IN  /\ t = <<"FCST">> => type = "forecasts"
            /\ t = <<"OBS">> => type = "observations"
            /\ t \notin {<<"FCST">>, <<"OBS">>} => last.status \in ParseErrors

(* C4: for a name outside the grammar parse_filename fails and sets none   *)
(* of the loader's kind, region and issue date.                            *)
C4_FailsClosed ==
    (filepath # 0 /\ ~GrammarName(FS[filepath].name)) =>
        /\ last.status \in ParseErrors
        /\ type = last.type0
        /\ region = last.region0
        /\ date_ = last.date0

C6_PartitionFromOwnName ==
    filepath # 0 =>
        \A i \in DOMAIN last.emitted :
            last.emitted[i].index = PartitionOfName(FS[filepath].name)

(* C7: load_data of the same file a second time submits the operations     *)
(* of the first time and leaves the store as it was.                       *)
C7_Idempotent ==
    [][(nLoads' = nLoads + 1 /\ last.file = last'.file)
           => (last'.ops = last.ops /\ store' = store)]_vars

(* C8: when add ends, having met no failure but parsing failures, every    *)
(* file of the run with a valid name has been loaded, also those ordered   *)
(* after a file whose name does not parse.                                 *)
C8_OtherFilesStillLoaded ==
    (pc = "idle" /\ outcome \in {"done"} \cup ParseErrors) =>
        \A k \in DOMAIN files_to_process :
            (/\ GrammarName(FS[files_to_process[k]].name)
             /\ KindOfToken(FS[files_to_process[k]].name[3]) # "None")
                => k <= pos

(* C9: add submits the operations of a file before those of any file       *)
(* modified later, one file after the other, and the store holds for each  *)
(* document the fields of the last operation written to it.                *)
C9_AscendingMtime ==
    /\ \A i, j \in DOMAIN log :
           FS[log[i].file].mtime < FS[log[j].file].mtime => i < j
    /\ \A i, j, k \in DOMAIN log :
           (i < j /\ j < k /\ log[i].file = log[k].file)
               => log[j].file = log[i].file
    /\ \A j \in DOMAIN log :
           (\A k \in DOMAIN log :
                (k > j => <<log[k].action.index, log[k].action.id>>
                              # <<log[j].action.index, log[j].action.id>>))
               => /\ <<log[j].action.index, log[j].action.id>> \in DOMAIN store
                  /\ \A x \in DOMAIN log[j].action.doc :
                         store[<<log[j].action.index, log[j].action.id>>][x]
                             = log[j].action.doc[x]

(* C9 witness: two files of different modification times have written the  *)
(* same document, and the store holds the later file's value.              *)
C9_Witness ==
    \E i, j \in DOMAIN log :
        /\ i < j
        /\ FS[log[i].file].mtime < FS[log[j].file].mtime
        /\ log[i].action.index = log[j].action.index
        /\ log[i].action.id = log[j].action.id
        /\ log[i].action.doc # log[j].action.doc
        /\ store[<<log[j].action.index, log[j].action.id>>] = log[j].action.doc

(* C10: the items of a loader after load_data are those of the file just   *)
(* loaded, and its kind is the kind of that file's name.                   *)
C10_NothingCarriedOver ==
    filepath # 0 =>
        /\ items = [i \in 1..Len(last.emitted) |-> last.emitted[i].doc]
        /\ parse(FS[filepath].name).ok =>
               type = KindOfToken(parse(FS[filepath].name).type[1])

====
